---- MODULE Spec2Model ----
(***************************************************************************)
(* Model of src/Vfs.js: the VfsNode tree, the mount table and the memory   *)
(* and local backends of class Vfs.                                        *)
(*                                                                         *)
(* A JavaScript string is a sequence of one-character strings, so that     *)
(* split, startsWith, slice and + are computed character by character.     *)
(* A VfsNode is an entry of the heap `nodes`; a reference to a node is its *)
(* heap index and 0 is null/undefined.  A metadata object is a function    *)
(* from its own keys to their values.  A directory handle is the real      *)
(* directory it denotes (the names from the picked directory down).        *)
(*                                                                         *)
(* Segment names are taken outside Object.prototype's property names, so   *)
(* `segment in cnode._children` is membership among the own keys.          *)
(***************************************************************************)
EXTENDS Integers, Sequences, FiniteSets, TLC

VARIABLES
    nodes,          \* the heap of VfsNodes, in allocation order; nodes[Root] is Vfs.root
    node_id,        \* Vfs.node_id
    mount_points,   \* Vfs.mount_points
    mounted_by,     \* for each mount point, the call [op, path] that registered it
    calls,          \* the calls suspended at an await, each with its local variables
    ops,            \* how many mkdir, write_file and mount_local_* calls were made
    last            \* the step taken last (see Event)

vars == <<nodes, node_id, mount_points, mounted_by, calls, ops, last>>

----------------------------------------------------------------------------
\* Bounds of the model.

\* most mkdir, write_file and mount_local_* calls made on one Vfs
MaxOps == 3
\* most calls suspended at an await at the same time
MaxCalls == 2

----------------------------------------------------------------------------
\* Strings.

Slash == <<"/">>

reverse(s) == [i \in 1..Len(s) |-> s[Len(s) + 1 - i]]

RECURSIVE join(_, _)
join(strs, sep) ==
    IF Len(strs) = 0 THEN <<>>
    ELSE IF Len(strs) = 1 THEN strs[1]
    ELSE strs[1] \o sep \o join(Tail(strs), sep)

RECURSIVE split(_, _, _)
split(str, cur, acc) ==
    IF Len(str) = 0 THEN Append(acc, cur)
    ELSE IF Head(str) = "/" THEN split(Tail(str), <<>>, Append(acc, cur))
    ELSE split(Tail(str), Append(cur, Head(str)), acc)

nonempty(s) == Len(s) > 0

\* normalize_path of a string; an array of segments is passed on as it is,
\* which the callers that hold an array do themselves.
normalize_path(path) == SelectSeq(split(path, <<>>, <<>>), nonempty)

\* a prefix test that only matches at a segment boundary
startsWith_at_segment(str, prefix) ==
    /\ Len(prefix) <= Len(str)
    /\ \A i \in 1..Len(prefix) : str[i] = prefix[i]
    /\ (Len(str) = Len(prefix) \/ str[Len(prefix) + 1] = "/")

startsWith(str, prefix) ==
    /\ Len(prefix) <= Len(str)
    /\ \A i \in 1..Len(prefix) : str[i] = prefix[i]

slice(str, n) == IF n >= Len(str) THEN <<>> ELSE SubSeq(str, n + 1, Len(str))

----------------------------------------------------------------------------
\* Property order of a plain object (Object.getOwnPropertyNames): the keys
\* that are array indices first, in ascending numeric order, then the other
\* keys in insertion order.

Digits == <<"0", "1", "2", "3", "4", "5", "6", "7", "8", "9">>

IsDigit(c) == \E i \in 1..Len(Digits) : Digits[i] = c

DigitVal(c) == CHOOSE i \in 0..9 : Digits[i + 1] = c

\* 2^32 - 2, the largest array index
MaxIndexDigits == <<"4", "2", "9", "4", "9", "6", "7", "2", "9", "4">>

RECURSIVE LexLeq(_, _)
LexLeq(a, b) ==
    IF Len(a) = 0 THEN TRUE
    ELSE IF DigitVal(Head(a)) # DigitVal(Head(b))
         THEN DigitVal(Head(a)) < DigitVal(Head(b))
    ELSE LexLeq(Tail(a), Tail(b))

\* canonical decimal strings compare as their values
NumLeq(a, b) == Len(a) < Len(b) \/ (Len(a) = Len(b) /\ LexLeq(a, b))

IsArrayIndex(key) ==
    /\ Len(key) > 0
    /\ \A i \in 1..Len(key) : IsDigit(key[i])
    /\ (Len(key) = 1 \/ key[1] # "0")
    /\ NumLeq(key, MaxIndexDigits)

RECURSIVE InsertIndexKey(_, _)
InsertIndexKey(sorted, e) ==
    IF Len(sorted) = 0 THEN <<e>>
    ELSE IF NumLeq(e.name, Head(sorted).name) THEN <<e>> \o sorted
    ELSE <<Head(sorted)>> \o InsertIndexKey(Tail(sorted), e)

RECURSIVE SortIndexKeys(_)
SortIndexKeys(es) ==
    IF Len(es) = 0 THEN <<>>
    ELSE InsertIndexKey(SortIndexKeys(Tail(es)), Head(es))

IsIndexEntry(e) == IsArrayIndex(e.name)

IsNamedEntry(e) == ~IsArrayIndex(e.name)

\* _children is the object's property table [name, node] in insertion order
OwnProperties(_children) ==
    SortIndexKeys(SelectSeq(_children, IsIndexEntry)) \o SelectSeq(_children, IsNamedEntry)

----------------------------------------------------------------------------
\* VfsNode.

Root == 1

VfsNode(name, metadata) ==
    [name |-> name, metadata |-> metadata, parent |-> 0, _children |-> <<>>]

has_child(node, segment) ==
    \E i \in 1..Len(node._children) : node._children[i].name = segment

child(node, segment) ==
    LET i == CHOOSE i \in 1..Len(node._children) : node._children[i].name = segment
    IN  node._children[i].node

RECURSIVE names_up(_, _)
names_up(ns, cnode) ==
    IF ns[cnode].parent = 0 THEN <<ns[cnode].name>>
    ELSE <<ns[cnode].name>> \o names_up(ns, ns[cnode].parent)

\* get path()
path_of(ns, cnode) == join(reverse(names_up(ns, cnode)), Slash)

\* *children()
children(ns, cnode) ==
    LET props == OwnProperties(ns[cnode]._children)
    IN  [i \in 1..Len(props) |-> props[i].node]

----------------------------------------------------------------------------
\* Vfs: the tree.

\* Object.assign(target, source)
assign(target, source) == source @@ target

new_child(ns, nid, cnode, segment) ==
    LET fresh == Len(ns) + 1
        made  == [VfsNode(segment, [id |-> nid, type |-> "folder"]) EXCEPT !.parent = cnode]
    IN  Append([ns EXCEPT ![cnode]._children = Append(@, [name |-> segment, node |-> fresh])],
               made)

\* the loop of _push with this.node_id++ forgotten
RECURSIVE push_walk_same_id(_, _, _, _)
push_walk_same_id(ns, nid, cnode, segments) ==
    IF Len(segments) = 0 THEN [nodes |-> ns, node_id |-> nid, cnode |-> cnode]
    ELSE IF has_child(ns[cnode], Head(segments))
         THEN push_walk_same_id(ns, nid, child(ns[cnode], Head(segments)), Tail(segments))
    ELSE push_walk_same_id(new_child(ns, nid, cnode, Head(segments)), nid,
                           Len(ns) + 1, Tail(segments))

\* the loop of _push with the test `segment in cnode._children` forgotten
RECURSIVE push_walk_always_new(_, _, _, _)
push_walk_always_new(ns, nid, cnode, segments) ==
    IF Len(segments) = 0 THEN [nodes |-> ns, node_id |-> nid, cnode |-> cnode]
    ELSE push_walk_always_new(new_child(ns, nid, cnode, Head(segments)), nid + 1,
                              Len(ns) + 1, Tail(segments))

\* the loop of _push: [nodes, node_id, cnode] once the segments are walked
RECURSIVE push_walk(_, _, _, _)
push_walk(ns, nid, cnode, segments) ==
    IF Len(segments) = 0 THEN [nodes |-> ns, node_id |-> nid, cnode |-> cnode]
    ELSE IF has_child(ns[cnode], Head(segments))
         THEN push_walk(ns, nid, child(ns[cnode], Head(segments)), Tail(segments))
    ELSE push_walk(new_child(ns, nid, cnode, Head(segments)), nid + 1,
                   Len(ns) + 1, Tail(segments))

\* _push(mount, segments, metadata) on a mount that is a node
_push(ns, nid, mount, segments, metadata) ==
    LET w == push_walk(ns, nid, mount, segments)
    IN  [nodes   |-> [w.nodes EXCEPT ![w.cnode].metadata =
                         assign(assign(@, [type |-> "file"]), metadata)],
         node_id |-> w.node_id,
         ret     |-> w.cnode]

RECURSIVE _open(_, _, _)
_open(ns, mount, segments) ==
    IF Len(segments) = 0 THEN mount
    ELSE IF ~has_child(ns[mount], Head(segments)) THEN 0
    ELSE _open(ns, child(ns[mount], Head(segments)), Tail(segments))

open(segments) == _open(nodes, Root, normalize_path(segments))

ls_names(cnode) ==
    LET cs == children(nodes, cnode) IN [i \in 1..Len(cs) |-> nodes[cs[i]].name]

----------------------------------------------------------------------------
\* Values that cross the interface.

\* an absent or undefined directoryHandle
Undefined == [dir |-> <<>>]

Handle(dir) == [dir |-> dir]

\* the handle test forgotten
truthy_always(handler) == TRUE

truthy(handler) == handler # Undefined

\* metadata.directoryHandle, undefined when the key is absent
directoryHandle(metadata) ==
    IF "directoryHandle" \in DOMAIN metadata THEN metadata.directoryHandle ELSE Undefined

\* a Blob/File: name, content, content type, and what directoryOpen adds
Blob(name, content, type, webkitRelativePath, handle) ==
    [name |-> name, content |-> content, type |-> type,
     webkitRelativePath |-> webkitRelativePath, directoryHandle |-> handle]

\* what a call returns (the settled value of the promise of an async call)
RetNode(n) == [kind |-> "node", node |-> n, names |-> <<>>]
RetNull == [kind |-> "null", node |-> 0, names |-> <<>>]
RetUndefined == [kind |-> "undefined", node |-> 0, names |-> <<>>]
RetFalse == [kind |-> "false", node |-> 0, names |-> <<>>]
RetThrow == [kind |-> "throw", node |-> 0, names |-> <<>>]
RetList(names) == [kind |-> "list", node |-> 0, names |-> names]
RetPair == [kind |-> "pair", node |-> 0, names |-> <<>>]
RetPending == [kind |-> "pending", node |-> 0, names |-> <<>>]
RetOf(n) == IF n = 0 THEN RetNull ELSE RetNode(n)

\* `last` is the step the program took last: the operation, its arguments,
\* what it returned and what it decided on the way.
\*   mount, rest    get_mount's pair (mount is the index in mount_points, 0 none)
\*   route          "memfs" or "local"
\*   closest, missing   _closest_directory_handler_local's node and to_create
\*   reqs           the getDirectoryHandle requests of the call so far
\*   target         the node a resumed call has just written to
\*   blobs          what the provider answered to a mount_local_* call
\*   nth, flying    of a mkdir: the number of the call among the calls made, and
\*                  how many calls were suspended when it was made
Event(op, path) ==
    [op |-> op, path |-> path, file_name |-> <<>>, content |-> "",
     ret |-> RetPending, mount |-> 0, rest |-> <<>>, route |-> "none",
     closest |-> 0, missing |-> <<>>, reqs |-> <<>>, target |-> 0, blobs |-> <<>>,
     nth |-> 0, flying |-> 0]

----------------------------------------------------------------------------
\* Vfs: mount table and backends.

RECURSIVE get_mount_from(_, _, _)
get_mount_from(mps, i, path) ==
    IF i > Len(mps) THEN [mount |-> 0, rest |-> path]
    ELSE IF startsWith(path, mps[i].path)
         THEN [mount |-> i, rest |-> slice(path, Len(mps[i].path))]
    ELSE get_mount_from(mps, i + 1, path)

get_mount(path) == get_mount_from(mount_points, 1, path)

_mkdir_memfs(root, path) ==
    _push(nodes, node_id, root, normalize_path(path), [type |-> "folder"])

_write_file_memfs(root, path, blob) ==
    _push(nodes, node_id, root, normalize_path(path), [type |-> "file", blob |-> blob])

\* the loop with to_create returned as it was collected, deepest first
RECURSIVE closest_loop_unreversed(_, _, _, _)
closest_loop_unreversed(ns, mount, segments, to_create) ==
    LET pdir == _open(ns, mount, segments)
    IN  IF pdir # 0 /\ truthy(directoryHandle(ns[pdir].metadata))
        THEN [handler |-> directoryHandle(ns[pdir].metadata), node |-> pdir,
              rest |-> to_create]
        ELSE IF Len(segments) = 0
             THEN [handler |-> Undefined, node |-> 0, rest |-> <<>>]
        ELSE closest_loop_unreversed(ns, mount, SubSeq(segments, 1, Len(segments) - 1),
                                     Append(to_create, segments[Len(segments)]))

\* the search that looks at the mount root alone
closest_loop_at_root(ns, mount, segments, to_create) ==
    IF truthy(directoryHandle(ns[mount].metadata))
    THEN [handler |-> directoryHandle(ns[mount].metadata), node |-> mount, rest |-> segments]
    ELSE [handler |-> Undefined, node |-> 0, rest |-> <<>>]

RECURSIVE closest_loop(_, _, _, _)
closest_loop(ns, mount, segments, to_create) ==
    LET pdir == _open(ns, mount, segments)
    IN  IF pdir # 0 /\ truthy(directoryHandle(ns[pdir].metadata))
        THEN [handler |-> directoryHandle(ns[pdir].metadata), node |-> pdir,
              rest |-> reverse(to_create)]
        ELSE IF Len(segments) = 0
             THEN [handler |-> Undefined, node |-> 0, rest |-> <<>>]
        ELSE closest_loop(ns, mount, SubSeq(segments, 1, Len(segments) - 1),
                          Append(to_create, segments[Len(segments)]))

\* [handler, node, rest]; [null, null, null] is handler Undefined, node 0
_closest_directory_handler_local(mount, path) ==
    closest_loop(nodes, mount, normalize_path(path), <<>>)

\* handler.getDirectoryHandle(pdir, {create: true}), when it succeeds
getDirectoryHandle(handler, pdir) == Handle(Append(handler.dir, pdir))

Request(handler, pdir) == [handler |-> handler, name |-> pdir]

----------------------------------------------------------------------------
\* The inputs: what clients pass and what the storage provider answers.

proj == <<"p", "r", "o", "j">>
sub == <<"s", "u", "b">>
inner == <<"i", "n", "n", "e", "r">>
x_txt == <<"x", ".", "t", "x", "t">>
note_txt == <<"n", "o", "t", "e", ".", "t", "x", "t">>

\* the absolute path "/" + segments joined by "/"
Abs(segments) == Slash \o join(segments, Slash)

\* paths given to mkdir
MkdirPaths ==
    { Slash, Abs(<<proj, sub, inner>>), Abs(<<proj \o <<"x">>>>),
      Abs(<<<<"a">>>>), Abs(<<<<"2">>>>), Abs(<<<<"1">>>>) }

\* paths given to write_file
WritePaths == { Abs(<<<<"a">>>>), Abs(<<proj>>), Abs(<<proj, sub, inner>>) }

\* paths given to open, ls and get_mount
OpenPaths == { Abs(<<<<"a">>, note_txt>>), Abs(<<proj, sub>>) }

LsPaths == { Slash, Abs(<<proj, sub>>) }

GetMountPaths == { Abs(<<proj, sub, inner>>), Abs(<<proj \o <<"x">>>>) }

\* paths given to mount_local_file and mount_local_folder
MountPaths == { <<>>, Slash, Abs(<<<<"a">>>>) }

FileNames == { note_txt }

Contents == { "hello" }

\* FS.fileOpen(): the file the user picks
FileOpenResults == { Blob(proj, "data", "", <<>>, Undefined) }

\* FS.directoryOpen({recursive: true}): the files under the picked directory,
\* each with its path from that directory and its directory's handle
\* (undefined where the browser has no File System Access API)
DirectoryOpenResults ==
    { <<Blob(x_txt, "x", "", join(<<proj, x_txt>>, Slash), Handle(<<proj>>))>>,
      <<Blob(x_txt, "x", "", join(<<proj, x_txt>>, Slash), Undefined)>>,
      <<>> }

\* the inputs of the mount-table specification: a directory docs is mounted
\* at the root and inside itself, and get_mount is asked for paths around it
docs == <<"d", "o", "c", "s">>
readme == <<"r", "e", "a", "d", "m", "e">>

DocsMountPaths == { <<>>, Slash, Abs(<<docs>>) }

DocsOpenResults ==
    { <<Blob(readme, "r", "", join(<<docs, readme>>, Slash), Handle(<<docs>>))>> }

\* the inputs of the specification of mkdir calls that interleave under one
\* mount: paths that overlap and a path apart from them
lib == <<"l", "i", "b">>

RaceMkdirPaths == { Abs(<<proj, sub>>), Abs(<<proj, sub, inner>>), Abs(<<proj, lib>>) }

RaceOpenResults ==
    { <<Blob(x_txt, "x", "", join(<<proj, x_txt>>, Slash), Handle(<<proj>>))>> }

DocsQueryPaths ==
    { Abs(<<docs, readme>>), Abs(<<docs \o <<"e", "t">>>>), Abs(<<docs, docs, readme>>),
      Abs(<<readme>>) }

----------------------------------------------------------------------------
\* Initial state: new Vfs().

Init ==
    /\ nodes = <<VfsNode(<<>>, [id |-> 0])>>
    /\ node_id = 1
    /\ mount_points = <<>>
    /\ mounted_by = <<>>
    /\ calls = <<>>
    /\ ops = 0
    /\ last = Event("new", <<>>)

remove(seq, i) == SubSeq(seq, 1, i - 1) \o SubSeq(seq, i + 1, Len(seq))

----------------------------------------------------------------------------
\* Queries.

ls(segments) ==
    LET cnode == open(segments)
    IN  IF cnode = 0 THEN RetNull ELSE RetList(ls_names(cnode))

call_open(path) ==
    /\ last' = [Event("open", path) EXCEPT !.ret = RetOf(open(path))]
    /\ UNCHANGED <<nodes, node_id, mount_points, mounted_by, calls, ops>>

call_ls(path) ==
    /\ last' = [Event("ls", path) EXCEPT !.ret = ls(path)]
    /\ UNCHANGED <<nodes, node_id, mount_points, mounted_by, calls, ops>>

call_get_mount(path) ==
    /\ last' = [Event("get_mount", path) EXCEPT
                    !.ret = RetPair, !.mount = get_mount(path).mount,
                    !.rest = get_mount(path).rest]
    /\ UNCHANGED <<nodes, node_id, mount_points, mounted_by, calls, ops>>

----------------------------------------------------------------------------
\* mkdir and write_file.

\* _mkdir_local up to its first await, or to its return when it has none
_mkdir_local(mount, path, ev) ==
    LET c  == _closest_directory_handler_local(mount.root, path)
        p  == _push(nodes, node_id, c.node, c.rest, [type |-> "folder"])
        e  == [ev EXCEPT !.route = "local", !.closest = c.node, !.missing = c.rest]
    IN  IF ~truthy(c.handler)
        THEN /\ last' = [e EXCEPT !.ret = RetNull]
             /\ UNCHANGED <<nodes, node_id, mount_points, mounted_by, calls>>
        ELSE /\ nodes' = p.nodes
             /\ node_id' = p.node_id
             /\ UNCHANGED <<mount_points, mounted_by>>
             /\ IF Len(c.rest) = 0
                THEN /\ last' = [e EXCEPT !.ret = RetNode(c.node)]
                     /\ UNCHANGED calls
                ELSE LET e1 == [e EXCEPT !.reqs = <<Request(c.handler, c.rest[1])>>]
                     IN  /\ Len(calls) < MaxCalls
                         /\ calls' = Append(calls, [ev |-> e1, root |-> 0,
                                                    handler |-> c.handler,
                                                    node |-> c.node, rest |-> c.rest])
                         /\ last' = [e1 EXCEPT !.op = "mkdir_await"]

mkdir(path) ==
    LET gm == get_mount(path)
        ev == [Event("mkdir", path) EXCEPT !.mount = gm.mount, !.rest = gm.rest,
                                           !.nth = ops + 1, !.flying = Len(calls)]
    IN  /\ ops < MaxOps
        /\ ops' = ops + 1
        /\ IF gm.mount = 0
           THEN LET p == _mkdir_memfs(Root, gm.rest)
                IN  /\ nodes' = p.nodes
                    /\ node_id' = p.node_id
                    /\ last' = [ev EXCEPT !.route = "memfs", !.ret = RetNode(p.ret)]
                    /\ UNCHANGED <<mount_points, mounted_by, calls>>
           ELSE IF mount_points[gm.mount].type = "local"
                THEN _mkdir_local(mount_points[gm.mount], gm.rest, ev)
           ELSE /\ last' = [ev EXCEPT !.ret = RetUndefined]
                /\ UNCHANGED <<nodes, node_id, mount_points, mounted_by, calls>>

\* _mkdir_local going on with node = node._children[pdir] forgotten
_mkdir_local_resume_on_parent(i, fulfilled) ==
    LET call == calls[i]
        pdir == Head(call.rest)
        new_handler == getDirectoryHandle(call.handler, pdir)
        node == call.node
        left == Tail(call.rest)
    IN  /\ call.ev.op = "mkdir"
        /\ UNCHANGED <<node_id, mount_points, mounted_by, ops>>
        /\ IF ~fulfilled
           THEN /\ calls' = remove(calls, i)
                /\ last' = [call.ev EXCEPT !.ret = RetThrow]
                /\ UNCHANGED nodes
           ELSE /\ nodes' = [nodes EXCEPT ![node].metadata =
                                 assign(@, [directoryHandle |-> new_handler])]
                /\ IF Len(left) = 0
                   THEN /\ calls' = remove(calls, i)
                        /\ last' = [call.ev EXCEPT !.ret = RetNode(node), !.target = node]
                   ELSE LET e1 == [call.ev EXCEPT
                                       !.reqs = Append(@, Request(new_handler, Head(left)))]
                        IN  /\ calls' = [calls EXCEPT ![i] =
                                            [call EXCEPT !.ev = e1, !.handler = new_handler,
                                                         !.node = node, !.rest = left]]
                            /\ last' = [e1 EXCEPT !.op = "mkdir_await", !.target = node]

\* _mkdir_local going on with the handle left alone on a Node that carries one
_mkdir_local_resume_keeping(i, fulfilled) ==
    LET call == calls[i]
        pdir == Head(call.rest)
        new_handler == getDirectoryHandle(call.handler, pdir)
        node == child(nodes[call.node], pdir)
        left == Tail(call.rest)
        kept == truthy(directoryHandle(nodes[node].metadata))
        written == IF kept THEN 0 ELSE node
    IN  /\ call.ev.op = "mkdir"
        /\ UNCHANGED <<node_id, mount_points, mounted_by, ops>>
        /\ IF ~fulfilled
           THEN /\ calls' = remove(calls, i)
                /\ last' = [call.ev EXCEPT !.ret = RetThrow]
                /\ UNCHANGED nodes
           ELSE /\ nodes' = IF kept THEN nodes
                            ELSE [nodes EXCEPT ![node].metadata =
                                      assign(@, [directoryHandle |-> new_handler])]
                /\ IF Len(left) = 0
                   THEN /\ calls' = remove(calls, i)
                        /\ last' = [call.ev EXCEPT !.ret = RetNode(node), !.target = written]
                   ELSE LET e1 == [call.ev EXCEPT
                                       !.reqs = Append(@, Request(new_handler, Head(left)))]
                        IN  /\ calls' = [calls EXCEPT ![i] =
                                            [call EXCEPT !.ev = e1, !.handler = new_handler,
                                                         !.node = node, !.rest = left]]
                            /\ last' = [e1 EXCEPT !.op = "mkdir_await", !.target = written]

\* the provider settles the getDirectoryHandle request call i awaits, and
\* _mkdir_local runs on to its next await or to its end
_mkdir_local_resume(i, fulfilled) ==
    LET call == calls[i]
        pdir == Head(call.rest)
        new_handler == getDirectoryHandle(call.handler, pdir)
        node == child(nodes[call.node], pdir)
        left == Tail(call.rest)
    IN  /\ call.ev.op = "mkdir"
        /\ UNCHANGED <<node_id, mount_points, mounted_by, ops>>
        /\ IF ~fulfilled
           THEN /\ calls' = remove(calls, i)
                /\ last' = [call.ev EXCEPT !.ret = RetThrow]
                /\ UNCHANGED nodes
           ELSE /\ nodes' = [nodes EXCEPT ![node].metadata =
                                 assign(@, [directoryHandle |-> new_handler])]
                /\ IF Len(left) = 0
                   THEN /\ calls' = remove(calls, i)
                        /\ last' = [call.ev EXCEPT !.ret = RetNode(node), !.target = node]
                   ELSE LET e1 == [call.ev EXCEPT
                                       !.reqs = Append(@, Request(new_handler, Head(left)))]
                        IN  /\ calls' = [calls EXCEPT ![i] =
                                            [call EXCEPT !.ev = e1, !.handler = new_handler,
                                                         !.node = node, !.rest = left]]
                            /\ last' = [e1 EXCEPT !.op = "mkdir_await", !.target = node]

\* _write_file_local with the blob passed on to _push
_write_file_local_storing(mount, path, blob, ev) ==
    LET c == _closest_directory_handler_local(mount.root, path)
        p == _push(nodes, node_id, c.node, c.rest, [type |-> "file", blob |-> blob])
        e == [ev EXCEPT !.route = "local", !.closest = c.node, !.missing = c.rest]
    IN  IF ~truthy(c.handler)
        THEN /\ last' = [e EXCEPT !.ret = RetNull]
             /\ UNCHANGED <<nodes, node_id, mount_points, mounted_by, calls>>
        ELSE /\ nodes' = p.nodes
             /\ node_id' = p.node_id
             /\ last' = [e EXCEPT !.ret = RetUndefined]
             /\ UNCHANGED <<mount_points, mounted_by, calls>>

_write_file_local(mount, path, blob, ev) ==
    LET c == _closest_directory_handler_local(mount.root, path)
        p == _push(nodes, node_id, c.node, c.rest, [type |-> "file"])
        e == [ev EXCEPT !.route = "local", !.closest = c.node, !.missing = c.rest]
    IN  IF ~truthy(c.handler)
        THEN /\ last' = [e EXCEPT !.ret = RetNull]
             /\ UNCHANGED <<nodes, node_id, mount_points, mounted_by, calls>>
        ELSE /\ nodes' = p.nodes
             /\ node_id' = p.node_id
             /\ last' = [e EXCEPT !.ret = RetUndefined]
             /\ UNCHANGED <<mount_points, mounted_by, calls>>

write_file(path, file_name, content) ==
    LET blob == Blob(file_name, content, "plain/text", <<>>, Undefined)
        gm == get_mount(path)
        ev == [Event("write_file", path) EXCEPT !.file_name = file_name,
                   !.content = content, !.mount = gm.mount, !.rest = gm.rest]
    IN  /\ ops < MaxOps
        /\ ops' = ops + 1
        /\ IF gm.mount = 0
           THEN LET p == _write_file_memfs(Root, gm.rest, blob)
                IN  /\ nodes' = p.nodes
                    /\ node_id' = p.node_id
                    /\ last' = [ev EXCEPT !.route = "memfs", !.ret = RetNode(p.ret)]
                    /\ UNCHANGED <<mount_points, mounted_by, calls>>
           ELSE IF mount_points[gm.mount].type = "local"
                THEN _write_file_local(mount_points[gm.mount], gm.rest, blob, ev)
           ELSE /\ last' = [ev EXCEPT !.ret = RetUndefined]
                /\ UNCHANGED <<nodes, node_id, mount_points, mounted_by, calls>>

----------------------------------------------------------------------------
\* Local mounts.  Each runs to its await of the provider (the mount path is
\* opened before it) and goes on when the provider settles.

MountPoint(path, root) == [type |-> "local", path |-> path, root |-> root]

mount_local_file(path) ==
    /\ ops < MaxOps
    /\ ops' = ops + 1
    /\ Len(calls) < MaxCalls
    /\ calls' = Append(calls, [ev |-> Event("mount_local_file", path), root |-> open(path),
                               handler |-> Undefined, node |-> 0, rest |-> <<>>])
    /\ last' = Event("mount_local_file_await", path)
    /\ UNCHANGED <<nodes, node_id, mount_points, mounted_by>>

\* the try block with _push going on from the root when open(path) found no Node
mount_local_file_body_from_root(call, blob) ==
    LET p == _push(nodes, node_id, IF call.root = 0 THEN Root ELSE call.root,
                   normalize_path(blob.name), [blob |-> blob, type |-> "file"])
    IN  [nodes |-> p.nodes, node_id |-> p.node_id,
         mount_points |-> Append(mount_points,
                                 MountPoint(call.ev.path \o Slash \o blob.name, p.ret)),
         ret |-> RetNode(p.ret)]

\* the try block after FS.fileOpen() has answered with blob
mount_local_file_body(call, blob) ==
    IF call.root = 0
    THEN [nodes |-> nodes, node_id |-> node_id, mount_points |-> mount_points,
          ret |-> RetFalse]
    ELSE LET p == _push(nodes, node_id, call.root, normalize_path(blob.name),
                        [blob |-> blob, type |-> "file"])
         IN  [nodes |-> p.nodes, node_id |-> p.node_id,
              mount_points |-> Append(mount_points,
                                      MountPoint(call.ev.path \o Slash \o blob.name, p.ret)),
              ret |-> RetNode(p.ret)]

mount_local_file_resume(i, fulfilled, blob) ==
    LET call == calls[i]
        out == IF fulfilled THEN mount_local_file_body(call, blob)
               ELSE [nodes |-> nodes, node_id |-> node_id, mount_points |-> mount_points,
                     ret |-> RetFalse]
    IN  /\ call.ev.op = "mount_local_file"
        /\ UNCHANGED ops
        /\ nodes' = out.nodes
        /\ node_id' = out.node_id
        /\ mount_points' = out.mount_points
        /\ mounted_by' = IF Len(out.mount_points) > Len(mount_points)
                          THEN Append(mounted_by, [op |-> call.ev.op, path |-> call.ev.path])
                          ELSE mounted_by
        /\ calls' = remove(calls, i)
        /\ last' = [call.ev EXCEPT !.ret = out.ret,
                                   !.blobs = IF fulfilled THEN <<blob>> ELSE <<>>]

mount_local_folder(path) ==
    /\ ops < MaxOps
    /\ ops' = ops + 1
    /\ Len(calls) < MaxCalls
    /\ calls' = Append(calls, [ev |-> Event("mount_local_folder", path), root |-> open(path),
                               handler |-> Undefined, node |-> 0, rest |-> <<>>])
    /\ last' = Event("mount_local_folder_await", path)
    /\ UNCHANGED <<nodes, node_id, mount_points, mounted_by>>

\* for (const blob of blobs): [nodes, node_id, threw]
RECURSIVE folder_loop(_, _, _, _)
folder_loop(ns, nid, _root, blobs) ==
    IF Len(blobs) = 0 THEN [nodes |-> ns, node_id |-> nid, threw |-> FALSE]
    ELSE IF _root = 0 THEN [nodes |-> ns, node_id |-> nid, threw |-> TRUE]
    ELSE LET blob == Head(blobs)
             p == _push(ns, nid, _root, normalize_path(blob.webkitRelativePath),
                        [blob |-> blob])
             up == p.nodes[p.ret].parent
         IN  IF up = 0 THEN [nodes |-> p.nodes, node_id |-> p.node_id, threw |-> TRUE]
             ELSE folder_loop([p.nodes EXCEPT ![up].metadata =
                                   assign(@, [directoryHandle |-> blob.directoryHandle])],
                              p.node_id, _root, Tail(blobs))

\* the try block with the new mount point put in place of the table
mount_local_folder_body_replacing(call, blobs) ==
    LET l == folder_loop(nodes, node_id, call.root, blobs)
        last_path == blobs[Len(blobs)].webkitRelativePath
        root_name == normalize_path(last_path)[1]
        mount_node == child(l.nodes[call.root], root_name)
    IN  IF l.threw \/ Len(blobs) = 0
        THEN [nodes |-> l.nodes, node_id |-> l.node_id, mount_points |-> mount_points,
              ret |-> RetFalse]
        ELSE [nodes |-> l.nodes, node_id |-> l.node_id,
              mount_points |-> <<MountPoint(call.ev.path \o Slash \o root_name, mount_node)>>,
              ret |-> RetNode(mount_node)]

\* the try block after FS.directoryOpen() has answered with blobs
mount_local_folder_body(call, blobs) ==
    LET l == folder_loop(nodes, node_id, call.root, blobs)
        last_path == blobs[Len(blobs)].webkitRelativePath
        root_name == normalize_path(last_path)[1]
        mount_node == child(l.nodes[call.root], root_name)
    IN  IF l.threw \/ Len(blobs) = 0
        THEN [nodes |-> l.nodes, node_id |-> l.node_id, mount_points |-> mount_points,
              ret |-> RetFalse]
        ELSE [nodes |-> l.nodes, node_id |-> l.node_id,
              mount_points |-> Append(mount_points,
                                      MountPoint(call.ev.path \o Slash \o root_name,
                                                 mount_node)),
              ret |-> RetNode(mount_node)]

mount_local_folder_resume(i, fulfilled, blobs) ==
    LET call == calls[i]
        out == IF fulfilled THEN mount_local_folder_body(call, blobs)
               ELSE [nodes |-> nodes, node_id |-> node_id, mount_points |-> mount_points,
                     ret |-> RetFalse]
    IN  /\ call.ev.op = "mount_local_folder"
        /\ UNCHANGED ops
        /\ nodes' = out.nodes
        /\ node_id' = out.node_id
        /\ mount_points' = out.mount_points
        /\ mounted_by' = IF Len(out.mount_points) > Len(mount_points)
                          THEN Append(mounted_by, [op |-> call.ev.op, path |-> call.ev.path])
                          ELSE mounted_by
        /\ calls' = remove(calls, i)
        /\ last' = [call.ev EXCEPT !.ret = out.ret,
                                   !.blobs = IF fulfilled THEN blobs ELSE <<>>]

----------------------------------------------------------------------------

Next ==
    \/ \E path \in OpenPaths : call_open(path)
    \/ \E path \in LsPaths : call_ls(path)
    \/ \E path \in GetMountPaths : call_get_mount(path)
    \/ \E path \in MkdirPaths : mkdir(path)
    \/ \E i \in 1..Len(calls), fulfilled \in BOOLEAN : _mkdir_local_resume(i, fulfilled)
    \/ \E path \in WritePaths, file_name \in FileNames, content \in Contents :
           write_file(path, file_name, content)
    \/ \E path \in MountPaths : mount_local_file(path)
    \/ \E i \in 1..Len(calls), fulfilled \in BOOLEAN, blob \in FileOpenResults :
           mount_local_file_resume(i, fulfilled, blob)
    \/ \E path \in MountPaths : mount_local_folder(path)
    \/ \E i \in 1..Len(calls), fulfilled \in BOOLEAN, blobs \in DirectoryOpenResults :
           mount_local_folder_resume(i, fulfilled, blobs)

Spec == Init /\ [][Next]_vars

\* Mounting and get_mount alone, on the docs inputs.
NextMounts ==
    \/ \E path \in DocsMountPaths : mount_local_folder(path)
    \/ \E i \in 1..Len(calls), fulfilled \in BOOLEAN, blobs \in DocsOpenResults :
           mount_local_folder_resume(i, fulfilled, blobs)
    \/ \E path \in DocsQueryPaths : call_get_mount(path)

SpecMounts == Init /\ [][NextMounts]_vars

\* A directory mounted at the root and mkdir calls below it that interleave
\* at their awaits, the provider answering every request.
NextMkdirs ==
    \/ mount_local_folder(<<>>)
    \/ \E i \in 1..Len(calls), blobs \in RaceOpenResults :
           mount_local_folder_resume(i, TRUE, blobs)
    \/ \E path \in RaceMkdirPaths : mkdir(path)
    \/ \E i \in 1..Len(calls) : _mkdir_local_resume(i, TRUE)

SpecMkdirs == Init /\ [][NextMkdirs]_vars

\* The same with a provider that may reject a request.
NextRetry ==
    \/ mount_local_folder(<<>>)
    \/ \E i \in 1..Len(calls), blobs \in RaceOpenResults :
           mount_local_folder_resume(i, TRUE, blobs)
    \/ \E path \in RaceMkdirPaths : mkdir(path)
    \/ \E i \in 1..Len(calls), fulfilled \in BOOLEAN : _mkdir_local_resume(i, fulfilled)

SpecRetry == Init /\ [][NextRetry]_vars

----------------------------------------------------------------------------
\* What the claims speak of.

type_of(n) == IF "type" \in DOMAIN nodes[n].metadata THEN nodes[n].metadata.type ELSE "none"

has_handle(ns, n) == directoryHandle(ns[n].metadata) # Undefined

\* the last step is a mkdir or write_file that has returned
Returned == last.op \in {"mkdir", "write_file"}

\* ... and did not fail
Succeeded == Returned /\ last.ret.kind \in {"node", "undefined"}

\* prefix is a prefix of str, said without startsWith
IsPrefix(prefix, str) == \E n \in 0..Len(str) : SubSeq(str, 1, n) = prefix

\* C1: after mkdir(P) or write_file(P, ...) has completed successfully, in any
\* state of the mount table, open(P) is a Node and its path is "/" followed by
\* the non-empty segments of P joined with "/".
C1_OpenedPathIsNormalized ==
    Succeeded =>
        /\ open(last.path) # 0
        /\ path_of(nodes, open(last.path)) = Slash \o join(normalize_path(last.path), Slash)

\* C2: with no mount matching, write_file(dir, fileName, content) makes a
\* file Node at dir + "/" + fileName whose blob holds content, and the Node
\* at dir stays a folder.
C2_WriteFileCreatesNamedFile ==
    (last.op = "write_file" /\ last.mount = 0) =>
        LET file == open(last.path \o Slash \o last.file_name)
            dir  == open(last.path)
        IN  /\ file # 0
            /\ type_of(file) = "file"
            /\ "blob" \in DOMAIN nodes[file].metadata
            /\ nodes[file].metadata.blob.content = last.content
            /\ dir # 0
            /\ type_of(dir) = "folder"

\* the mount points whose path is a prefix of the path asked for
Matching(path) == { i \in 1..Len(mount_points) : IsPrefix(mount_points[i].path, path) }

\* C3: get_mount(path) returns the first mount point in registration order
\* whose path is a raw string prefix of path, with path minus that prefix, and
\* (no mount, path) when there is none; "/docs" matches "/docs/readme" with
\* "/readme" left and matches "/docset" too, and a shorter prefix registered
\* earlier wins over a longer one registered later.
C3_GetMountFirstRawPrefix ==
    last.op = "get_mount" =>
        /\ IF Matching(last.path) = {}
           THEN last.mount = 0 /\ last.rest = last.path
           ELSE /\ last.mount \in Matching(last.path)
                /\ \A i \in Matching(last.path) : last.mount <= i
                /\ mount_points[last.mount].path \o last.rest = last.path
        /\ (\E i \in 1..Len(mount_points) : mount_points[i].path = Abs(<<docs>>)) =>
               /\ last.path = Abs(<<docs, readme>>) =>
                      /\ last.mount # 0
                      /\ mount_points[last.mount].path = Abs(<<docs>>)
                      /\ last.rest = Abs(<<readme>>)
               /\ last.path = Abs(<<docs \o <<"e", "t">>>>) =>
                      /\ last.mount # 0
                      /\ mount_points[last.mount].path = Abs(<<docs>>)
                      /\ last.rest = <<"e", "t">>

\* "/docs" was registered before "/docs/docs", and get_mount("/docs/docs/readme")
\* has answered with the first
C3_Witness ==
    /\ last.op = "get_mount"
    /\ last.path = Abs(<<docs, docs, readme>>)
    /\ Len(mount_points) = 2
    /\ mount_points[1].path = Abs(<<docs>>)
    /\ mount_points[2].path = Abs(<<docs, docs>>)
    /\ last.mount = 1
    /\ last.rest = Abs(<<docs, readme>>)

\* the one-file listing proj/x.txt, with the handle of proj
ProjListing == <<Blob(x_txt, "x", "", join(<<proj, x_txt>>, Slash), Handle(<<proj>>))>>

\* the mount point a successful mount_local_* has just registered
Registered == mount_points[Len(mount_points)]

\* C4: after mount_local_folder(path) has succeeded on entries under a top
\* directory D, the mount point registered has the path of its root Node (the
\* Node of D under the Node of path), that Node carries the directoryHandle of
\* the entries directly in D, and every entry is a file-typed descendant;
\* mount_local_folder("/") of proj/x.txt registers the path "/proj".
C4_FolderMountPathIsRootPath ==
    (last.op = "mount_local_folder" /\ last.ret.kind = "node") =>
        /\ Registered.root = last.ret.node
        /\ Registered.path = path_of(nodes, Registered.root)
        /\ \A k \in 1..Len(last.blobs) :
               LET segments == normalize_path(last.blobs[k].webkitRelativePath)
                   entry == _open(nodes, open(last.path), segments)
               IN  /\ Registered.root = _open(nodes, open(last.path), <<segments[1]>>)
                   /\ entry # 0
                   /\ type_of(entry) = "file"
                   /\ Len(segments) = 2 =>
                          directoryHandle(nodes[Registered.root].metadata)
                              = last.blobs[k].directoryHandle
        /\ (last.path = Slash /\ last.blobs = ProjListing) => Registered.path = Abs(<<proj>>)

\* C5: on a new Vfs, after mount_local_folder("/") of proj/x.txt,
\* mkdir("/proj/sub/inner") goes to the local backend, finds the handle of
\* /proj, asks the provider for sub and then for inner, and when it has
\* completed /proj/sub and /proj/sub/inner are folders that carry a handle.
C5_MkdirUnderFolderMountAtSlash ==
    (/\ last.op = "mkdir"
     /\ last.path = Abs(<<proj, sub, inner>>)
     /\ ops = 2
     /\ mounted_by = <<[op |-> "mount_local_folder", path |-> Slash]>>
     /\ has_handle(nodes, open(Abs(<<proj>>)))) =>
        /\ last.route = "local"
        /\ last.closest = open(Abs(<<proj>>))
        /\ last.reqs = <<Request(Handle(<<proj>>), sub), Request(Handle(<<proj, sub>>), inner)>>
        /\ \A path \in {Abs(<<proj, sub>>), Abs(<<proj, sub, inner>>)} :
               /\ open(path) # 0
               /\ type_of(open(path)) = "folder"
               /\ has_handle(nodes, open(path))

\* C6: ls(path) gives the names of the Node's children in the order in which
\* the children were created (the heap is in creation order), whatever the
\* names are.
C6_LsInCreationOrder ==
    (last.op = "ls" /\ last.ret.kind = "list") =>
        LET cnode == open(last.path)
            names == last.ret.names
        IN  /\ Len(names) = Len(nodes[cnode]._children)
            /\ \A i \in 1..Len(names) : has_child(nodes[cnode], names[i])
            /\ \A i, j \in 1..Len(names) :
                   i < j => child(nodes[cnode], names[i]) < child(nodes[cnode], names[j])

\* the Node the path of a mkdir or write_file ends at, on the route it took
Terminal(e) ==
    IF e.mount = 0 THEN open(e.path)
    ELSE _open(nodes, mount_points[e.mount].root, normalize_path(e.rest))

\* C9: mkdir and write_file return the terminal Node of the target path when
\* they succeed and null when they fail, on the memory route and on the local
\* route; a write_file under a local mount with a handle-bearing ancestor
\* returns the file Node it has made.
C9_ReturnsNodeOrNull ==
    Returned =>
        /\ last.ret.kind \in {"node", "null"}
        /\ last.ret.kind = "node" => last.ret.node = Terminal(last)
        /\ (last.op = "write_file" /\ last.route = "local" /\ last.closest # 0) =>
               last.ret = RetNode(Terminal(last))

id_of(ns, n) == ns[n].metadata.id

\* ids are distinct, below the allocator's next id, and grow with creation
IdsIncrease ==
    \A i \in 1..Len(nodes) :
        /\ id_of(nodes, i) < node_id
        /\ \A j \in 1..Len(nodes) : i < j => id_of(nodes, i) < id_of(nodes, j)

\* no step removes a Node or changes its id
IdsKept ==
    \A i \in 1..Len(nodes) : i <= Len(nodes') /\ id_of(nodes', i) = id_of(nodes, i)

\* C7: in every reachable state Node ids are pairwise distinct, each is
\* smaller than the allocator's next id, a Node created later has a larger id
\* than every Node created earlier, and no operation, a metadata merge on
\* re-push included, changes the id of an existing Node.
C7_IdsDistinctIncreasingKept == [](IdsIncrease) /\ [][IdsKept]_vars

\* write_file has re-pushed a Node that is older than the newest one
C7_Witness ==
    /\ last.op = "write_file"
    /\ last.ret.kind = "node"
    /\ last.ret.node < Len(nodes)
    /\ "blob" \in DOMAIN nodes[last.ret.node].metadata
    /\ Len(nodes) >= 3

\* The _push that a mkdir or write_file makes in the step it is called in:
\* its mount, segments and metadata, read off the step's record.
PushingCall ==
    /\ ops' = ops + 1
    /\ last'.op \in {"mkdir", "mkdir_await", "write_file"}
    /\ last'.route = "memfs" \/ (last'.route = "local" /\ last'.closest # 0)

PushMount == IF last'.route = "memfs" THEN Root ELSE last'.closest

PushSegments == IF last'.route = "memfs" THEN normalize_path(last'.rest) ELSE last'.missing

PushMetadata ==
    IF last'.op # "write_file" THEN [type |-> "folder"]
    ELSE IF last'.route = "local" THEN [type |-> "file"]
    ELSE [type |-> "file",
          blob |-> Blob(last'.file_name, last'.content, "plain/text", <<>>, Undefined)]

\* the Node the pushed path names before the push, 0 if there is none
Pushed == _open(nodes, PushMount, PushSegments)

\* C8: pushing a path that exists returns the Node the path named before,
\* makes no Node, leaves the id allocator and every Node's name, children and
\* parent as they were, and changes only the terminal Node's metadata: each
\* key of the new metadata is set, the type is set, every other key is kept.
C8_PushIdempotentOnStructure ==
    [][(PushingCall /\ Pushed # 0) =>
          /\ node_id' = node_id
          /\ Len(nodes') = Len(nodes)
          /\ last'.route = "memfs" => last'.ret = RetNode(Pushed)
          /\ last'.ret.kind = "node" => last'.ret.node = Pushed
          /\ \A n \in 1..Len(nodes) :
                 /\ nodes'[n].name = nodes[n].name
                 /\ nodes'[n].parent = nodes[n].parent
                 /\ nodes'[n]._children = nodes[n]._children
                 /\ n # Pushed => nodes'[n].metadata = nodes[n].metadata
          /\ LET old == nodes[Pushed].metadata
                 new == nodes'[Pushed].metadata
             IN  /\ DOMAIN new = DOMAIN old \cup DOMAIN PushMetadata
                 /\ \A k \in DOMAIN PushMetadata : new[k] = PushMetadata[k]
                 /\ \A k \in DOMAIN old \ DOMAIN PushMetadata : new[k] = old[k]
      ]_vars

\* mkdir has re-pushed a Node that write_file had made a file: the type is
\* overwritten and the blob is kept
C8_Witness ==
    /\ last.op = "mkdir"
    /\ last.route = "memfs"
    /\ last.ret.kind = "node"
    /\ type_of(last.ret.node) = "folder"
    /\ "blob" \in DOMAIN nodes[last.ret.node].metadata
    /\ node_id = 2

\* a mkdir or write_file call that get_mount sends to a mount
LocalCall ==
    /\ ops' = ops + 1
    /\ last'.op \in {"mkdir", "mkdir_await", "write_file"}
    /\ last'.mount # 0

\* some Node on the way from root down the segments carries a handle
HandleOnWay(root, segments) ==
    \E k \in 0..Len(segments) :
        LET n == _open(nodes, root, SubSeq(segments, 1, k))
        IN  n # 0 /\ has_handle(nodes, n)

NoHandleOnWay == ~HandleOnWay(mount_points[last'.mount].root, normalize_path(last'.rest))

\* the call returns the failure marker, asks the provider for nothing and
\* leaves the tree and the mount table as they were
FailsUntouched ==
    /\ last'.op \in {"mkdir", "write_file"}
    /\ last'.ret = RetNull
    /\ last'.reqs = <<>>
    /\ UNCHANGED <<nodes, node_id, mount_points, calls>>

MountReturns == last'.op \in {"mount_local_file", "mount_local_folder"}

\* the call that returns in this step had found no Node at its mount path
MountPathUnresolved ==
    \E i \in 1..Len(calls) :
        /\ calls' = remove(calls, i)
        /\ calls[i].ev.op = last'.op
        /\ calls[i].ev.path = last'.path
        /\ calls[i].root = 0

\* the provider failed or was cancelled, or directoryOpen gave no entry
ProviderGaveNothing == last'.blobs = <<>>

\* C11: mount_local_file and mount_local_folder never throw; when the provider
\* fails or is cancelled, when the mount path is not the path of a Node, or
\* when mount_local_folder's provider gives no entry, the call returns false
\* and the mount table is as it was.
C11_MountFailureIsSignalled ==
    [][MountReturns =>
          /\ last'.ret.kind \in {"node", "false"}
          /\ last'.ret.kind = "false" => mount_points' = mount_points
          /\ (ProviderGaveNothing \/ MountPathUnresolved) =>
                 /\ last'.ret = RetFalse
                 /\ mount_points' = mount_points
                 /\ mounted_by' = mounted_by
      ]_vars

\* mount_local_file was given a path that is not the path of a Node while a
\* mount is registered, the user picked a file, and the call has returned false
C11_Witness ==
    /\ last.op = "mount_local_file"
    /\ last.path = Abs(<<<<"a">>>>)
    /\ last.blobs # <<>>
    /\ last.ret = RetFalse
    /\ Len(mount_points) = 1
    /\ open(last.path) = 0

\* the mount table before the step is the beginning of the table after it
MountsKept ==
    /\ Len(mount_points) <= Len(mount_points')
    /\ SubSeq(mount_points', 1, Len(mount_points)) = mount_points

\* a step that extends the table is the return of a mount_local_* call that
\* succeeded, and it adds the one mount point of the Node it returns
MountsExtendedByMount ==
    mount_points' # mount_points =>
        /\ MountReturns
        /\ last'.ret.kind = "node"
        /\ Len(mount_points') = Len(mount_points) + 1
        /\ mount_points'[Len(mount_points')].root = last'.ret.node
        /\ mount_points'[Len(mount_points')].type = "local"

\* C12: the mount table is append-only: in every step the table before is a
\* prefix of the table after, only a mount_local_file or mount_local_folder
\* that succeeds extends it, and open, ls, mkdir and write_file (every step
\* of them) leave it as it was.
C12_MountTableAppendOnly ==
    [][/\ MountsKept
       /\ MountsExtendedByMount
       /\ ~MountReturns => mount_points' = mount_points
      ]_vars

\* a second mount point has been registered behind the first, and a mkdir
\* sent to a mount has returned since
C12_Witness ==
    /\ Len(mount_points) = 2
    /\ mounted_by[1].op = "mount_local_file"
    /\ mounted_by[2].op = "mount_local_folder"
    /\ last.op = "mkdir"
    /\ last.mount # 0

\* the step in which a mkdir is called and sent to a local mount that has a
\* handle-bearing Node on the way to the target
LocalMkdirCalled ==
    /\ ops' = ops + 1
    /\ last'.op \in {"mkdir", "mkdir_await"}
    /\ last'.route = "local"
    /\ last'.closest # 0

\* the step in which the provider has answered a request of a local mkdir
LocalMkdirAnswered ==
    /\ ops' = ops
    /\ last'.op \in {"mkdir", "mkdir_await"}
    /\ last'.ret.kind # "throw"

\* how many segments below the mount root the deepest handle-bearing Node is
ClosestDepth(root, segments) ==
    CHOOSE k \in 0..Len(segments) :
        /\ _open(nodes, root, SubSeq(segments, 1, k)) # 0
        /\ has_handle(nodes, _open(nodes, root, SubSeq(segments, 1, k)))
        /\ \A j \in (k + 1)..Len(segments) :
               LET n == _open(nodes, root, SubSeq(segments, 1, j))
               IN  n = 0 \/ ~has_handle(nodes, n)

\* the Node of the j-th missing segment of the step's call
MissingNode(ns, j) == _open(ns, last'.closest, SubSeq(last'.missing, 1, j))

\* the requests made so far ask for the missing segments in order, each on
\* the handle the request before it returns
RequestsChained ==
    /\ Len(last'.reqs) <= Len(last'.missing)
    /\ \A i \in 1..Len(last'.reqs) : last'.reqs[i].name = last'.missing[i]
    /\ \A i \in 1..(Len(last'.reqs) - 1) :
           last'.reqs[i + 1].handler
               = getDirectoryHandle(last'.reqs[i].handler, last'.reqs[i].name)

\* N is the deepest handle-bearing Node, the missing segments are the rest of
\* the path in path order and are Nodes below N once the call is made, and
\* the first request, if any is needed, is made on N's handle
MirroredThenAsked ==
    LET root == mount_points[last'.mount].root
        segments == normalize_path(last'.rest)
        k == ClosestDepth(root, segments)
    IN  /\ last'.closest = _open(nodes, root, SubSeq(segments, 1, k))
        /\ last'.missing = SubSeq(segments, k + 1, Len(segments))
        /\ \A j \in 1..Len(last'.missing) :
               /\ MissingNode(nodes', j) # 0
               /\ ~has_handle(nodes', MissingNode(nodes', j))
        /\ RequestsChained
        /\ IF Len(last'.missing) = 0
           THEN /\ last'.op = "mkdir"
                /\ last'.reqs = <<>>
                /\ last'.ret = RetNode(last'.closest)
           ELSE /\ last'.op = "mkdir_await"
                /\ last'.reqs
                       = <<Request(directoryHandle(nodes[last'.closest].metadata),
                                   last'.missing[1])>>

\* the handle returned is attached to the Node of its segment; then the next
\* segment is asked for, or the call returns the Node of the last segment
\* with as many requests made as segments were missing
AttachedThenAskedOrReturned ==
    LET answered == IF last'.op = "mkdir" THEN Len(last'.reqs) ELSE Len(last'.reqs) - 1
        req == last'.reqs[answered]
        node == MissingNode(nodes', answered)
    IN  /\ RequestsChained
        /\ answered >= 1
        /\ node # 0
        /\ last'.target = node
        /\ directoryHandle(nodes'[node].metadata) = getDirectoryHandle(req.handler, req.name)
        /\ \A n \in 1..Len(nodes) :
               n # node => directoryHandle(nodes'[n].metadata) = directoryHandle(nodes[n].metadata)
        /\ last'.op = "mkdir" =>
               /\ Len(last'.reqs) = Len(last'.missing)
               /\ last'.ret = RetNode(MissingNode(nodes', Len(last'.missing)))

LocalWriteCalled ==
    /\ ops' = ops + 1
    /\ last'.op = "write_file"
    /\ last'.route = "local"
    /\ last'.closest # 0

\* the missing segments that name no Node yet
Unmade == { j \in 1..Len(last'.missing) : MissingNode(nodes, j) = 0 }

\* C14: a write_file sent to a local mount with a handle-bearing Node on the
\* way changes only the tree: the missing segments become Nodes below the
\* closest handle-bearing Node, the terminal Node gets type file, the provider
\* is asked for nothing, no Node is given a directoryHandle, and the content
\* written is not stored on the terminal Node (a blob it has is the one it
\* had before the call).
C14_LocalWriteIsTreeOnly ==
    [][LocalWriteCalled =>
          LET root == mount_points[last'.mount].root
              segments == normalize_path(last'.rest)
              k == ClosestDepth(root, segments)
              terminal == MissingNode(nodes', Len(last'.missing))
          IN  /\ last'.closest = _open(nodes, root, SubSeq(segments, 1, k))
              /\ last'.missing = SubSeq(segments, k + 1, Len(segments))
              /\ UNCHANGED <<mount_points, mounted_by, calls>>
              /\ last'.reqs = <<>>
              /\ \A j \in 1..Len(last'.missing) : MissingNode(nodes', j) # 0
              /\ Len(nodes') = Len(nodes) + Cardinality(Unmade)
              /\ terminal # 0
              /\ nodes'[terminal].metadata.type = "file"
              /\ \A n \in 1..Len(nodes') :
                     directoryHandle(nodes'[n].metadata)
                         = IF n <= Len(nodes) THEN directoryHandle(nodes[n].metadata)
                           ELSE Undefined
              /\ \A n \in 1..Len(nodes) :
                     n # terminal => nodes'[n].metadata = nodes[n].metadata
              /\ "blob" \in DOMAIN nodes'[terminal].metadata =>
                     /\ terminal <= Len(nodes)
                     /\ "blob" \in DOMAIN nodes[terminal].metadata
                     /\ nodes'[terminal].metadata.blob = nodes[terminal].metadata.blob
      ]_vars

\* write_file("/proj/sub/inner") under the folder mount /proj has made the
\* Nodes sub and inner, inner a file with no blob and no handle
C14_Witness ==
    /\ last.op = "write_file"
    /\ last.route = "local"
    /\ last.path = Abs(<<proj, sub, inner>>)
    /\ last.closest # 0
    /\ Len(last.missing) = 2
    /\ open(last.path) # 0
    /\ type_of(open(last.path)) = "file"
    /\ "blob" \notin DOMAIN nodes[open(last.path)].metadata
    /\ ~has_handle(nodes, open(last.path))

\* C15: in every reachable state every Node that carries a directoryHandle
\* has type folder, also after a write_file whose path is that of a mount
\* root or of another Node that carries a handle.
C15_HandleOnlyOnFolder ==
    \A n \in 1..Len(nodes) : has_handle(nodes, n) => type_of(n) = "folder"

\* C16: in every reachable state only Nodes of type file carry a blob; no
\* sequence of operations, write_file then mkdir on one path for one, leaves
\* a folder Node with a blob in its metadata.
C16_BlobOnlyOnFile ==
    \A n \in 1..Len(nodes) : "blob" \in DOMAIN nodes[n].metadata => type_of(n) = "file"

\* the Nodes the step assigns a directoryHandle to: the Node of the segment
\* whose request was answered, in a step of a local mkdir; the parent Node of
\* each entry that comes with a handle, in the step mount_local_folder goes
\* through the entries
AssignedHandle ==
    IF LocalMkdirAnswered THEN {last'.target}
    ELSE IF last'.op = "mount_local_folder" /\ last'.ret.kind = "node"
    THEN { _open(nodes', _open(nodes', Root, normalize_path(last'.path)),
                 SubSeq(normalize_path(last'.blobs[k].webkitRelativePath), 1,
                        Len(normalize_path(last'.blobs[k].webkitRelativePath)) - 1)) :
               k \in { j \in 1..Len(last'.blobs) : last'.blobs[j].directoryHandle # Undefined } }
    ELSE {}

\* C17: a directoryHandle is attached to a Node at most once: once a Node
\* carries a handle, no later step of mount_local_folder or of a local mkdir,
\* in any interleaving, assigns a directoryHandle to that Node.
C17_HandleAttachedOnce ==
    [][\A n \in 1..Len(nodes) : has_handle(nodes, n) => n \notin AssignedHandle]_vars

\* the request a suspended local mkdir awaits
Awaited(call) == Request(call.handler, Head(call.rest))

\* a local mkdir called while another one awaits the provider for the next
\* segment below the same Node asks the provider for the same directory on
\* the same handle, and both are suspended after the step
RaceDuplicates ==
    (LocalMkdirCalled /\ last'.op = "mkdir_await") =>
        \A i \in 1..Len(calls) :
            (/\ calls[i].ev.op = "mkdir"
             /\ calls[i].node = last'.closest
             /\ Head(calls[i].rest) = last'.missing[1]) =>
                /\ last'.reqs[1] = Awaited(calls[i])
                /\ calls'[i] = calls[i]
                /\ Len(calls') = Len(calls) + 1
                /\ Awaited(calls'[Len(calls')]) = Awaited(calls[i])

\* an answered request writes its handle to the Node of its segment also when
\* the Node carries a handle that another call attached
RaceOverwrites ==
    LocalMkdirAnswered =>
        LET answered == IF last'.op = "mkdir" THEN Len(last'.reqs) ELSE Len(last'.reqs) - 1
            node == MissingNode(nodes, answered)
        IN  (node # 0 /\ has_handle(nodes, node)) =>
                /\ last'.target = node
                /\ directoryHandle(nodes'[node].metadata)
                       = getDirectoryHandle(last'.reqs[answered].handler,
                                            last'.reqs[answered].name)

\* C18: two local mkdir calls on overlapping paths under one mount can
\* interleave at the await of the provider: the second finds the same closest
\* handle as the first and asks for the same missing directory, so the
\* provider gets two create requests for the same handle and name, and the
\* second completion writes the directoryHandle of the Node over the one the
\* first completion attached.
C18_RacingMkdirsDuplicateAndOverwrite == [][RaceDuplicates /\ RaceOverwrites]_vars

\* two mkdir calls are suspended, both have asked for sub on the handle of
\* proj and had the answer, and the step taken last wrote the handle of the
\* Node sub for the second time
C18_Witness ==
    /\ Len(calls) = 2
    /\ calls[1].ev.op = "mkdir"
    /\ calls[2].ev.op = "mkdir"
    /\ calls[1].ev.reqs[1] = Request(Handle(<<proj>>), sub)
    /\ calls[2].ev.reqs[1] = calls[1].ev.reqs[1]
    /\ Len(calls[1].ev.reqs) = 2
    /\ Len(calls[2].ev.reqs) = 2
    /\ calls[1].node = calls[2].node
    /\ last.op = "mkdir_await"
    /\ last.target = calls[1].node
    /\ has_handle(nodes, last.target)

\* the Node of the j-th missing segment of the call that returned last, the
\* closest handle-bearing Node for j = 0
OnPath(j) == _open(nodes, last.closest, SubSeq(last.missing, 1, j))

\* a local mkdir has returned its Node: every Node from the closest
\* handle-bearing Node down to the target carries a handle, each one below
\* the closest the handle of the directory of its own name in the directory
\* of its parent's handle, as the call asked for it
CompletedPathHasHandles ==
    (last.op = "mkdir" /\ last.route = "local" /\ last.ret.kind = "node") =>
        /\ has_handle(nodes, last.closest)
        /\ last.ret.node = OnPath(Len(last.missing))
        /\ Len(last.reqs) = Len(last.missing)
        /\ \A j \in 1..Len(last.missing) :
               /\ OnPath(j) # 0
               /\ has_handle(nodes, OnPath(j))
               /\ last.reqs[j]
                      = Request(directoryHandle(nodes[OnPath(j - 1)].metadata), nodes[OnPath(j)].name)
               /\ directoryHandle(nodes[OnPath(j)].metadata)
                      = getDirectoryHandle(last.reqs[j].handler, last.reqs[j].name)

\* whatever the calls in flight, a Node that carries a handle and is no mount
\* root has a parent that carries one, and its handle is the one the provider
\* returns for the Node's name on the parent's handle
HandlesFromParents ==
    \A n \in 1..Len(nodes) :
        (/\ has_handle(nodes, n)
         /\ \A m \in 1..Len(mount_points) : mount_points[m].root # n) =>
            /\ nodes[n].parent # 0
            /\ has_handle(nodes, nodes[n].parent)
            /\ directoryHandle(nodes[n].metadata)
                   = getDirectoryHandle(directoryHandle(nodes[nodes[n].parent].metadata),
                                        nodes[n].name)

\* no step takes a handle off a Node or puts that of another directory on it
HandlesStay ==
    \A n \in 1..Len(nodes) :
        has_handle(nodes, n) =>
            directoryHandle(nodes'[n].metadata) = directoryHandle(nodes[n].metadata)

\* C19: under every interleaving of local mkdir calls on one mount, on
\* overlapping or disjoint paths, whose requests the provider all answers:
\* once the calls have returned, every Node on each target path from the
\* closest handle-bearing Node down to the target carries a directoryHandle,
\* and each of these handles was returned by a create request for the Node's
\* own name made on a handle attached to the Node's parent.
C19_InterleavedMkdirsLeaveHandles ==
    /\ [](CompletedPathHasHandles /\ HandlesFromParents)
    /\ [][HandlesStay]_vars

\* mkdir("/proj/sub") asked for sub on the handle of proj before
\* mkdir("/proj/sub/inner") had its answer for sub, and has returned after
\* that call returned; no call is in flight
C19_Witness ==
    /\ calls = <<>>
    /\ ops = 3
    /\ Len(mount_points) = 1
    /\ nodes[3].name = x_txt
    /\ last.op = "mkdir"
    /\ last.path = Abs(<<proj, sub>>)
    /\ last.ret.kind = "node"
    /\ last.reqs = <<Request(Handle(<<proj>>), sub)>>
    /\ open(Abs(<<proj, sub, inner>>)) # 0
    /\ has_handle(nodes, open(Abs(<<proj, sub, inner>>)))
    /\ has_handle(nodes, open(Abs(<<proj, sub>>)))

\* the step in which the provider rejects the request a local mkdir awaits;
\* the request rejected is the last one the call has made
MkdirRejected == last'.op = "mkdir" /\ last'.ret.kind = "throw"

\* the record e is of a mkdir made with no call suspended and followed by no
\* other call up to the time `made` calls have been made
RanAlone(e, made) == e.flying = 0 /\ e.nth = made

\* the Nodes of all missing segments are in the tree and those before the
\* rejected one carry a handle
MirroredAndAttachedBefore ==
    \A j \in 1..Len(last'.missing) :
        /\ MissingNode(nodes', j) # 0
        /\ j < Len(last'.reqs) => has_handle(nodes', MissingNode(nodes', j))

\* the Nodes of the rejected segment and of the later ones carry no handle
NoneFromRejectedOn ==
    \A j \in Len(last'.reqs)..Len(last'.missing) : ~has_handle(nodes', MissingNode(nodes', j))

\* mkdir is called again with the path of the mkdir that has just failed
RetryCalled ==
    /\ last.op = "mkdir"
    /\ last.ret.kind = "throw"
    /\ ops' = ops + 1
    /\ last'.op \in {"mkdir", "mkdir_await"}
    /\ last'.path = last.path

\* the segments below the mount root whose Nodes carry no handle
RECURSIVE Lacking(_, _, _)
Lacking(root, segments, k) ==
    IF k > Len(segments) THEN <<>>
    ELSE LET n == _open(nodes, root, SubSeq(segments, 1, k))
         IN  (IF n # 0 /\ has_handle(nodes, n) THEN <<>> ELSE <<segments[k]>>)
                 \o Lacking(root, segments, k + 1)

\* the retry asks for the segments whose Nodes lack a handle and for no other
RetryAsksForLacking ==
    /\ last'.route = "local"
    /\ last'.closest # 0
    /\ last'.missing = Lacking(mount_points[last'.mount].root, normalize_path(last'.rest), 1)
    /\ Len(last'.missing) > 0 =>
           last'.reqs = <<Request(directoryHandle(nodes[last'.closest].metadata),
                                  last'.missing[1])>>

\* ... which are the rejected segment and the later ones
RetryStartsAtRejected ==
    last'.missing = SubSeq(last.missing, Len(last.reqs), Len(last.missing))

\* a local mkdir has returned its Node: every Node from the mount root down
\* to the target carries a handle
WholePathHasHandles ==
    (last.op = "mkdir" /\ last.route = "local" /\ last.ret.kind = "node") =>
        \A k \in 0..Len(normalize_path(last.rest)) :
            LET n == _open(nodes, mount_points[last.mount].root,
                           SubSeq(normalize_path(last.rest), 1, k))
            IN  n # 0 /\ has_handle(nodes, n)

====
